---- MODULE Spec2Model ----
(***************************************************************************)
(* Model of the Ocene service (src/api.py): the CRUD endpoints over the    *)
(* tables "ocene" (ratings) and "pritozbe" (complaints).                   *)
(*                                                                         *)
(* One action per endpoint.  An action is one whole request: a new         *)
(* Resource object is built for it (its __init__ opens a connection and,   *)
(* for three of the four classes, creates the table inside the             *)
(* connection's transaction when it is absent), the handler runs, and the  *)
(* connection is dropped; what was not committed is rolled back.           *)
(*                                                                         *)
(* Text is a sequence of one-character strings.  An optional value is a    *)
(* sequence of length 0 (Python's None) or 1.                              *)
(***************************************************************************)
EXTENDS Integers, Sequences, FiniteSets, TLC

\* ------------------------------------------------------------------ bounds
\* the number of rows the database holds, both tables together
MaxRows == 2

\* ------------------------------------------------------- program constants
ImeWidth == 25
OcenaWidth == 300

\* ------------------------------------------------------------ input domains
None == <<>>
Some(v) == <<v>>

Ids == {1, 2}

\* The subscriber service (external): the subscribers it knows, by id.
Narocniki ==
  [u \in {1, 2} |-> IF u = 1 THEN <<"A", "n", "a">> ELSE <<" ", "B", "o">>]

\* id_uporabnika is optional; 3 is an id the subscriber service does not know.
UporabnikArgs == {None, Some(1), Some(2), Some(3)}

\* id_uporabnika_vir and id_uporabnika_cilj, optional as well
VirArgs == {None, Some(1), Some(3)}
CiljArgs == {None, Some(2), Some(3)}

\* ocena / pritozba is optional.
BesediloArgs == {None, Some(<<"o", "k", " ">>)}

\* --------------------------------------------------------------- text helpers
\* str.strip(): leading and trailing whitespace removed.
\* The first and the last index in lo .. hi of a character that is not
\* whitespace, 0 when there is none (found by halving the range).
RECURSIVE FirstInk(_, _, _)
FirstInk(s, lo, hi) ==
  IF lo > hi THEN 0
  ELSE IF lo = hi THEN (IF s[lo] # " " THEN lo ELSE 0)
  ELSE LET mid == (lo + hi) \div 2
           left == FirstInk(s, lo, mid)
       IN IF left # 0 THEN left ELSE FirstInk(s, mid + 1, hi)

RECURSIVE LastInk(_, _, _)
LastInk(s, lo, hi) ==
  IF lo > hi THEN 0
  ELSE IF lo = hi THEN (IF s[lo] # " " THEN lo ELSE 0)
  ELSE LET mid == (lo + hi) \div 2
           right == LastInk(s, mid + 1, hi)
       IN IF right # 0 THEN right ELSE LastInk(s, lo, mid)

Strip(s) ==
  LET first == FirstInk(s, 1, Len(s))
  IN IF first = 0 THEN <<>> ELSE SubSeq(s, first, LastInk(s, 1, Len(s)))

\* "{}".format(v): None is written as the text None.
Format(v) == IF v = None THEN <<"N", "o", "n", "e">> ELSE v[1]

\* A CHAR(n) column.  A value longer than n is refused unless only blanks are
\* cut off; what is kept is the first n characters.  A SELECT returns the value
\* padded with blanks to n characters: the padded text is held as its
\* characters and the number of blanks that follow them.
CharFits(s, n) == \A i \in 1 .. Len(s) : i > n => s[i] = " "

CharStore(s, n) == IF Len(s) > n THEN SubSeq(s, 1, n) ELSE s

CharSelect(v, n) == [chars |-> v, blanks |-> n - Len(v)]

\* str.strip() of a padded text: the blanks that follow the characters are
\* trailing whitespace and go with the rest of it.
StripSelected(p) == Strip(p.chars)

\* ------------------------------------------------------------------- state
VARIABLES
  tables,    \* the committed catalog: the names of the tables that exist
  ocene,     \* the committed rows of table ocene, in storage order (a CHAR column is padded by SELECT)
  pritozbe,  \* the committed rows of table pritozbe, in storage order
  request,   \* the last request served: resource, method, id
  lookups,   \* the subscriber lookups it made, in order
  response,  \* its HTTP response
  log,       \* the structured log records it emitted, in order
  sql,       \* the statements it sent to the database, in order
  created    \* history: per table, the 201 create responses whose id was not deleted since

vars == <<tables, ocene, pritozbe, request, lookups, response, log, sql, created>>

TableNames == {"ocene", "pritozbe"}

\* ----------------------------------------------------------------- logging
\* l.info / l.warning with the extra fields of custom_format.
LogRecord(method, direction, status, code) ==
  [crud_method |-> method, directions |-> direction, status |-> status, http_code |-> code]

\* l.warning(...) called without extra: none of the fields is set.
BareWarning == LogRecord(None, None, None, None)

LogIn(method) == LogRecord(Some(method), Some("in"), None, None)

LogOut(method, status, code) == LogRecord(Some(method), Some("out"), Some(status), Some(code))

\* --------------------------------------------------------------- responses
\* What the framework makes of a handler's return value: a (data, code) pair
\* is sent with that code; any other value is the data of a 200 response.
Unpack(ret) ==
  IF ret.tuple THEN [code |-> ret.code, rows |-> ret.rows, scalar |-> None, message |-> None]
  ELSE [code |-> 200, rows |-> <<>>, scalar |-> Some(ret.value), message |-> None]

ReturnPair(rows, code) == [tuple |-> TRUE, rows |-> rows, code |-> code]

ReturnValue(v) == [tuple |-> FALSE, value |-> v]

\* abort(code) / abort(code, message)
Abort(code, message) == [code |-> code, rows |-> <<>>, scalar |-> None, message |-> message]

\* An exception no handler catches: the framework answers 500.
ServerError == [code |-> 500, rows |-> <<>>, scalar |-> None, message |-> None]

\* ------------------------------------------------------ subscriber service
\* requests.get(UPORABNIKI_IP + "narocniki/" + str(id_uporabnika))
Lookup(uid) ==
  IF uid # None /\ uid[1] \in DOMAIN Narocniki
  THEN [status_code |-> 200, ime |-> Narocniki[uid[1]]]
  ELSE [status_code |-> 404, ime |-> <<>>]

\* ---------------------------------------------------------------- database
\* Resource.__init__: the table is looked up in the catalog and created in the
\* connection's transaction when it is absent.
InitSql(t) ==
  <<"SELECT EXISTS">> \o (IF t \in tables THEN <<>> ELSE <<"CREATE TABLE">>)

\* SELECT * FROM ocene / pritozbe: every row, its CHAR columns padded
SelectOcene(rows) ==
  [i \in 1 .. Len(rows) |->
     [id |-> rows[i].id, ime |-> CharSelect(rows[i].ime, ImeWidth),
      ocena |-> CharSelect(rows[i].ocena, OcenaWidth)]]

SelectPritozbe(rows) ==
  [i \in 1 .. Len(rows) |->
     [id |-> rows[i].id, ime_vir |-> CharSelect(rows[i].ime_vir, ImeWidth),
      ime_cilj |-> CharSelect(rows[i].ime_cilj, ImeWidth),
      pritozba |-> CharSelect(rows[i].pritozba, OcenaWidth)]]

\* ... WHERE id = ...
Where(rows, id) == SelectSeq(rows, LAMBDA r : r.id = id)

\* (variant: only the first matching row goes)
DeleteFirstMatch(rows, id) ==
  LET hits == {i \in 1 .. Len(rows) : rows[i].id = id}
  IN IF hits = {} THEN rows
     ELSE LET k == CHOOSE i \in hits : \A j \in hits : i <= j
          IN SubSeq(rows, 1, k - 1) \o SubSeq(rows, k + 1, Len(rows))

\* DELETE FROM t WHERE id = ...
DeleteWhere(rows, id) == SelectSeq(rows, LAMBDA r : r.id # id)

\* the ids list built by delete()
IdsOf(rows) == {rows[i].id : i \in 1 .. Len(rows)}

\* What one request leaves behind for the next one to read.
Finish(req, calls, resp, records, statements) ==
  /\ request' = req
  /\ lookups' = calls
  /\ response' = resp
  /\ log' = records
  /\ sql' = statements

Request(resource, method, id) == [resource |-> resource, method |-> method, id |-> id]

\* one call of the subscriber service, as the request saw it
Call(uid, resp) == [id |-> uid, status_code |-> resp.status_code]

\* ------------------------------------------------------------ ratings: item
\* NarocnikModel(id, ime.strip(), ocena.strip()) of a stored row
NarocnikModel(row) ==
  [id |-> row.id, ime |-> StripSelected(row.ime), ocena |-> StripSelected(row.ocena)]

\* Narocnik.get(id): the response, the log records and the statements
NarocnikGetOutcome(id) ==
  LET row == SelectOcene(Where(ocene, id))
      statements == InitSql("ocene") \o <<"SELECT">>
  IN IF Len(row) = 0
     THEN [response |-> Abort(404, None),
           log |-> <<LogIn("get"), LogOut("get", "fail", 404)>>, sql |-> statements]
     ELSE [response |-> Unpack(ReturnPair(<<NarocnikModel(row[1])>>, 200)),
           log |-> <<LogIn("get"), LogOut("get", "success", 200)>>, sql |-> statements]

\* GET /ocene/<id>
NarocnikGet(id) ==
  LET out == NarocnikGetOutcome(id)
  IN /\ Finish(Request("ocene", "get", Some(id)), <<>>, out.response, out.log, out.sql)
     /\ UNCHANGED <<tables, ocene, pritozbe, created>>

\* DELETE /ocene/<id>
NarocnikDelete(id) ==
  LET req == Request("ocene", "delete", Some(id))
      statements == InitSql("ocene") \o <<"SELECT">>
  IN IF id \notin IdsOf(SelectOcene(ocene))
     THEN /\ Finish(req, <<>>, Abort(404, None),
                    <<LogIn("delete"), LogOut("delete", "fail", 404)>>, statements)
          /\ UNCHANGED <<tables, ocene, pritozbe, created>>
     ELSE /\ ocene' = DeleteWhere(ocene, id)
          /\ tables' = tables \cup {"ocene"}
          /\ Finish(req, <<>>, Unpack(ReturnValue(204)),
                    <<LogIn("delete"), LogOut("delete", "success", 204)>>,
                    statements \o <<"DELETE", "COMMIT">>)
          /\ created' = [created EXCEPT !.ocene = DeleteWhere(@, id)]
          /\ UNCHANGED pritozbe

\* ------------------------------------------------------ ratings: collection
\* GET /ocene
ListNarocnikovGet ==
  /\ Finish(Request("ocene", "list", None), <<>>,
            Unpack(ReturnPair([i \in 1 .. Len(ocene) |-> NarocnikModel(SelectOcene(ocene)[i])], 200)),
            <<LogIn("get"), LogOut("get", "success", 200)>>,
            InitSql("ocene") \o <<"SELECT">>)
  /\ UNCHANGED <<tables, ocene, pritozbe, created>>

\* (variant: only a server error of the subscriber service counts as a failure)
OcenaLookupFailedOn500(resp) == resp.status_code >= 500

\* resp.status_code != 200 (rating create)
OcenaLookupFailed(resp) == resp.status_code # 200

\* POST /ocene
ListNarocnikovPost(id, id_uporabnika, ocena) ==
  LET req == Request("ocene", "post", Some(id))
      resp == Lookup(id_uporabnika)
      ime_uporabnika == resp.ime
      init == InitSql("ocene")
  IN IF OcenaLookupFailed(resp)
     THEN /\ Finish(req, <<Call(id_uporabnika, resp)>>, Abort(404, None), <<LogIn("post"), BareWarning>>, init)
          /\ UNCHANGED <<tables, ocene, pritozbe, created>>
     ELSE IF ~ (CharFits(ime_uporabnika, ImeWidth) /\ CharFits(Format(ocena), OcenaWidth))
     THEN \* the INSERT is refused: value too long for type character(n)
          /\ Finish(req, <<Call(id_uporabnika, resp)>>, ServerError, <<LogIn("post")>>, init \o <<"INSERT">>)
          /\ UNCHANGED <<tables, ocene, pritozbe, created>>
     ELSE /\ Len(ocene) + Len(pritozbe) < MaxRows
          /\ ocene' = Append(ocene, [id |-> id, ime |-> CharStore(ime_uporabnika, ImeWidth),
                                     ocena |-> CharStore(Format(ocena), OcenaWidth)])
          /\ tables' = tables \cup {"ocene"}
          /\ UNCHANGED pritozbe
          /\ IF ocena = None
             THEN \* args["ocena"].strip() on None, after the commit
                  /\ Finish(req, <<Call(id_uporabnika, resp)>>, ServerError, <<LogIn("post")>>, init \o <<"INSERT", "COMMIT">>)
                  /\ UNCHANGED created
             ELSE LET model == [id |-> id, ime |-> ime_uporabnika, ocena |-> Strip(ocena[1])]
                  IN /\ Finish(req, <<Call(id_uporabnika, resp)>>, Unpack(ReturnPair(<<model>>, 201)),
                               <<LogIn("post"), LogOut("post", "success", 201)>>,
                               init \o <<"INSERT", "COMMIT">>)
                     /\ created' = [created EXCEPT !.ocene = Append(@, model)]

\* --------------------------------------------------------- complaints: item
\* PritozbaModel(id, ime_vir.strip(), ime_cilj.strip(), pritozba.strip()) of a stored row
PritozbaModel(row) ==
  [id |-> row.id, ime_vir |-> StripSelected(row.ime_vir),
   ime_cilj |-> StripSelected(row.ime_cilj), pritozba |-> StripSelected(row.pritozba)]

\* Pritozba.get(id).  Pritozba.__init__ does not create the table: on a
\* database without it the SELECT raises.
PritozbaGetOutcome(id) ==
  LET row == SelectPritozbe(Where(pritozbe, id))
  IN IF "pritozbe" \notin tables
     THEN [response |-> ServerError, log |-> <<LogIn("get")>>, sql |-> <<"SELECT">>]
     ELSE IF Len(row) = 0
     THEN [response |-> Abort(404, Some([text |-> "Pritozba ni bila najdena", id |-> None])),
           log |-> <<LogIn("get"), LogOut("get", "fail", 404)>>, sql |-> <<"SELECT">>]
     ELSE [response |-> Unpack(ReturnPair(<<PritozbaModel(row[1])>>, 200)),
           log |-> <<LogIn("get"), LogOut("get", "success", 200)>>, sql |-> <<"SELECT">>]

\* GET /pritozbe/<id>
PritozbaGet(id) ==
  LET out == PritozbaGetOutcome(id)
  IN /\ Finish(Request("pritozbe", "get", Some(id)), <<>>, out.response, out.log, out.sql)
     /\ UNCHANGED <<tables, ocene, pritozbe, created>>

\* (variant: the DELETE statement still names table ocene)
PritozbaDeleteFromOcene(id) ==
  LET req == Request("pritozbe", "delete", Some(id))
  IN IF "pritozbe" \notin tables
     THEN /\ Finish(req, <<>>, ServerError, <<LogIn("delete")>>, <<"SELECT">>)
          /\ UNCHANGED <<tables, ocene, pritozbe, created>>
     ELSE IF id \notin IdsOf(SelectPritozbe(pritozbe))
     THEN /\ Finish(req, <<>>, Abort(404, None),
                    <<LogIn("delete"), LogOut("delete", "fail", 404)>>, <<"SELECT">>)
          /\ UNCHANGED <<tables, ocene, pritozbe, created>>
     ELSE /\ ocene' = DeleteWhere(ocene, id)
          /\ Finish(req, <<>>, Unpack(ReturnValue(204)),
                    <<LogIn("delete"), LogOut("delete", "success", 204)>>,
                    <<"SELECT", "DELETE", "COMMIT">>)
          /\ created' = [created EXCEPT !.ocene = DeleteWhere(@, id)]
          /\ UNCHANGED <<tables, pritozbe>>

\* DELETE /pritozbe/<id>
PritozbaDelete(id) ==
  LET req == Request("pritozbe", "delete", Some(id))
  IN IF "pritozbe" \notin tables
     THEN /\ Finish(req, <<>>, ServerError, <<LogIn("delete")>>, <<"SELECT">>)
          /\ UNCHANGED <<tables, ocene, pritozbe, created>>
     ELSE IF id \notin IdsOf(SelectPritozbe(pritozbe))
     THEN /\ Finish(req, <<>>, Abort(404, None),
                    <<LogIn("delete"), LogOut("delete", "fail", 404)>>, <<"SELECT">>)
          /\ UNCHANGED <<tables, ocene, pritozbe, created>>
     ELSE /\ pritozbe' = DeleteWhere(pritozbe, id)
          /\ Finish(req, <<>>, Unpack(ReturnValue(204)),
                    <<LogIn("delete"), LogOut("delete", "success", 204)>>,
                    <<"SELECT", "DELETE", "COMMIT">>)
          /\ created' = [created EXCEPT !.pritozbe = DeleteWhere(@, id)]
          /\ UNCHANGED <<tables, ocene>>

\* --------------------------------------------------- complaints: collection
\* GET /pritozbe
ListPritozbGet ==
  /\ Finish(Request("pritozbe", "list", None), <<>>,
            Unpack(ReturnPair([i \in 1 .. Len(pritozbe) |-> PritozbaModel(SelectPritozbe(pritozbe)[i])], 200)),
            <<LogIn("get"), LogOut("get", "success", 200)>>,
            InitSql("pritozbe") \o <<"SELECT">>)
  /\ UNCHANGED <<tables, ocene, pritozbe, created>>

\* the arguments ListPritozb's parser declares
ListPritozbArgs == {"id", "ime", "pritozba", "id_uporabnika_vir", "id_uporabnika_cilj"}

\* resp_vir.status_code != 200
VirLookupFailed(resp_vir) == resp_vir.status_code # 200

\* (variant: the target lookup's status is not looked at)
CiljLookupUnchecked(resp_cilj) == FALSE

\* resp_cilj.status_code != 200
CiljLookupFailed(resp_cilj) == resp_cilj.status_code # 200

\* POST /pritozbe
ListPritozbPost(id, id_uporabnika_vir, id_uporabnika_cilj, besedilo) ==
  LET req == Request("pritozbe", "post", Some(id))
      resp_vir == Lookup(id_uporabnika_vir)
      resp_cilj == Lookup(id_uporabnika_cilj)
      ime_uporabnika_vir == resp_vir.ime
      ime_uporabnika_cilj == resp_cilj.ime
      vir == Call(id_uporabnika_vir, resp_vir)
      cilj == Call(id_uporabnika_cilj, resp_cilj)
      init == InitSql("pritozbe")
      unwritten == UNCHANGED <<tables, ocene, pritozbe, created>>
  IN IF VirLookupFailed(resp_vir)
     THEN \* the local id is bound to id_uporabnika_vir and named in the message
          /\ Finish(req, <<vir>>,
                    Abort(404, Some([text |-> "Uporabnik ni bil najden", id |-> id_uporabnika_vir])),
                    <<LogIn("post"), BareWarning>>, init)
          /\ unwritten
     ELSE IF CiljLookupFailed(resp_cilj)
     THEN \* args["id_uporabnika"] is read first, the local id next: the parser
          \* declares no such argument and id is unbound on this path
          /\ IF "id_uporabnika" \notin ListPritozbArgs
             THEN Finish(req, <<vir, cilj>>, ServerError, <<LogIn("post")>>, init)
             ELSE Finish(req, <<vir, cilj>>, ServerError, <<LogIn("post"), BareWarning>>, init)
          /\ unwritten
     ELSE IF ~ /\ CharFits(ime_uporabnika_vir, ImeWidth)
               /\ CharFits(ime_uporabnika_cilj, ImeWidth)
               /\ CharFits(Format(besedilo), OcenaWidth)
     THEN /\ Finish(req, <<vir, cilj>>, ServerError, <<LogIn("post")>>, init \o <<"INSERT">>)
          /\ unwritten
     ELSE /\ Len(ocene) + Len(pritozbe) < MaxRows
          /\ pritozbe' = Append(pritozbe,
                                [id |-> id,
                                 ime_vir |-> CharStore(ime_uporabnika_vir, ImeWidth),
                                 ime_cilj |-> CharStore(ime_uporabnika_cilj, ImeWidth),
                                 pritozba |-> CharStore(Format(besedilo), OcenaWidth)])
          /\ tables' = tables \cup {"pritozbe"}
          /\ UNCHANGED ocene
          /\ IF besedilo = None
             THEN /\ Finish(req, <<vir, cilj>>, ServerError, <<LogIn("post")>>, init \o <<"INSERT", "COMMIT">>)
                  /\ UNCHANGED created
             ELSE LET model == [id |-> id, ime_vir |-> ime_uporabnika_vir,
                                ime_cilj |-> ime_uporabnika_cilj,
                                pritozba |-> Strip(besedilo[1])]
                  IN /\ Finish(req, <<vir, cilj>>, Unpack(ReturnPair(<<model>>, 201)),
                               <<LogIn("post"), LogOut("post", "success", 201)>>,
                               init \o <<"INSERT", "COMMIT">>)
                     /\ created' = [created EXCEPT !.pritozbe = Append(@, model)]

\* ------------------------------------------------------------ specification
\* A fresh database, before the first request.
Init ==
  /\ tables = {}
  /\ ocene = <<>>
  /\ pritozbe = <<>>
  /\ request = Request("none", "none", None)
  /\ lookups = <<>>
  /\ response = [code |-> 0, rows |-> <<>>, scalar |-> None, message |-> None]
  /\ log = <<>>
  /\ sql = <<>>
  /\ created = [t \in TableNames |-> <<>>]

Next ==
  \/ \E id \in Ids : PritozbaGet(id)
  \/ \E id \in Ids : PritozbaDelete(id)
  \/ ListPritozbGet
  \/ \E id \in Ids, v \in VirArgs, c \in CiljArgs, b \in BesediloArgs :
       ListPritozbPost(id, v, c, b)
  \/ \E id \in Ids : NarocnikGet(id)
  \/ \E id \in Ids : NarocnikDelete(id)
  \/ ListNarocnikovGet
  \/ \E id \in Ids, u \in UporabnikArgs, o \in BesediloArgs : ListNarocnikovPost(id, u, o)

Spec == Init /\ [][Next]_vars

\* ------------------------------------------------------------------ claims
Range(seq) == {seq[i] : i \in 1 .. Len(seq)}

IsRequest(req, resource, method) == req.resource = resource /\ req.method = method

\* the rows of the table a resource works on
RowsOf(resource) == IF resource = "ocene" THEN ocene ELSE pritozbe

\* C1: a complaint create one of whose subscriber lookups did not succeed ends
\* with 404 and a message naming the id whose lookup failed (the last lookup
\* made), whether the source or the target lookup is the one that failed.
C1_NotFoundNamesFailedId ==
  (/\ IsRequest(request, "pritozbe", "post")
   /\ \E i \in 1 .. Len(lookups) : lookups[i].status_code # 200)
  => /\ response.code = 404
     /\ response.message # None
     /\ response.message[1].id = lookups[Len(lookups)].id

C3_InsertOnlyAfterBothLookups ==
  [][(/\ IsRequest(request', "pritozbe", "post")
      /\ ~ (/\ Len(lookups') = 2
            /\ lookups'[1].status_code = 200
            /\ lookups'[2].status_code = 200))
     => /\ pritozbe' = pritozbe
        /\ "INSERT" \notin Range(sql')]_vars

C3_Witness ==
  /\ IsRequest(request, "pritozbe", "post")
  /\ Len(lookups) = 2
  /\ lookups[1].status_code = 200
  /\ lookups[2].status_code # 200
  /\ Len(pritozbe) > 0

\* the latest 201 create response for id x on a resource, if its id was not
\* deleted since
CreatedWith(resource, x) == Where(created[resource], x)

\* C4: a get of an id that was created with a 201 response (and not deleted
\* since) answers 200 with the fields of that create response, text fields
\* included, also when the table already held a row with that id.
C4_CreateThenGetRoundTrip ==
  (/\ request.method = "get"
   /\ request.resource \in TableNames
   /\ CreatedWith(request.resource, request.id[1]) # <<>>)
  => LET made == CreatedWith(request.resource, request.id[1])
     IN /\ response.code = 200
        /\ response.rows = <<made[Len(made)]>>

\* C5: an item delete that matched a row (it sent the DELETE) committed and
\* answers with status 204 and no body.
C5_DeleteAnswers204NoBody ==
  (request.method = "delete" /\ "DELETE" \in Range(sql))
  => /\ "COMMIT" \in Range(sql)
     /\ response.code = 204
     /\ response.rows = <<>>
     /\ response.scalar = None

\* what a get of id x on a resource would answer in the current state
GetCode(resource, x) ==
  IF resource = "ocene" THEN NarocnikGetOutcome(x).response.code
  ELSE PritozbaGetOutcome(x).response.code

\* C6: right after a delete of id x that matched, a get of x answers 404, and
\* a get of x that answers 404 keeps answering 404 across every request that
\* is not a create of x on that resource; so after a delete of x a get of x
\* answers 404 until x is created again, however many rows had id x.
C6_DeletedStaysNotFound ==
  [][\A r \in TableNames : \A x \in Ids :
       /\ (/\ IsRequest(request', r, "delete")
           /\ request'.id = Some(x)
           /\ "DELETE" \in Range(sql'))
          => GetCode(r, x)' = 404
       /\ (/\ GetCode(r, x) = 404
           /\ ~ (IsRequest(request', r, "post") /\ request'.id = Some(x)))
          => GetCode(r, x)' = 404]_vars

C6_Witness ==
  /\ request.method = "delete"
  /\ request.resource \in TableNames
  /\ "DELETE" \in Range(sql)
  /\ GetCode(request.resource, request.id[1]) = 404
  /\ Len(RowsOf(request.resource)) > 0

\* C7: a delete of an id no stored row has answers 404, sends neither DELETE
\* nor COMMIT, and leaves the rows of the table as they were.
C7_DeleteOfAbsentIdIsNotFound ==
  [][\A r \in TableNames :
       (/\ IsRequest(request', r, "delete")
        /\ request'.id[1] \notin IdsOf(RowsOf(r)))
       => /\ response'.code = 404
          /\ "DELETE" \notin Range(sql')
          /\ "COMMIT" \notin Range(sql')
          /\ RowsOf(r)' = RowsOf(r)]_vars

\* a create response with its text fields trimmed, as a list shows a row
Trimmed(resource, model) ==
  IF resource = "ocene"
  THEN [model EXCEPT !.ime = Strip(@)]
  ELSE [model EXCEPT !.ime_vir = Strip(@), !.ime_cilj = Strip(@)]

\* C8: a list returns exactly the rows created with a 201 response and not
\* deleted since, as a set.
C8_ListIsCreatedMinusDeleted ==
  request.method = "list"
  => Range(response.rows)
       = {Trimmed(request.resource, m) : m \in Range(created[request.resource])}

\* C9: a request that finds its table absent creates it, is served against
\* it, and leaves it in place for the requests that follow.
C9_TableCreatedAtFirstUse ==
  [][\A r \in TableNames :
       (request'.resource = r /\ r \notin tables)
       => /\ "CREATE TABLE" \in Range(sql')
          /\ response'.code # 500
          /\ r \in tables']_vars

\* the crud_method the log uses for a request
CrudMethod(method) == IF method = "list" THEN "get" ELSE method

\* C10: every request logs a record with direction in first and a record with
\* direction out last, the latter with the request's method, an outcome and
\* the status code of the response.
C10_InAndOutRecords ==
  request.method # "none"
  => /\ Len(log) >= 2
     /\ log[1].directions = Some("in")
     /\ log[Len(log)].directions = Some("out")
     /\ log[Len(log)].crud_method = Some(CrudMethod(request.method))
     /\ log[Len(log)].status \in {Some("success"), Some("fail")}
     /\ log[Len(log)].http_code = Some(response.code)

\* C11: the rows of a table grow only in a create on its collection and change
\* otherwise only in a delete on its item; an item get and a list, whatever they
\* answer, leave both tables as they were, and a request on one resource
\* leaves the other resource's table as it was.
C11_RowsChangeOnlyByCreateAndDelete ==
  [][/\ request'.method \in {"get", "list"} => (ocene' = ocene /\ pritozbe' = pritozbe)
     /\ \A r \in TableNames :
          /\ request'.resource # r => RowsOf(r)' = RowsOf(r)
          /\ Len(RowsOf(r)') > Len(RowsOf(r)) => IsRequest(request', r, "post")
          /\ (RowsOf(r)' # RowsOf(r) /\ Len(RowsOf(r)') <= Len(RowsOf(r)))
             => IsRequest(request', r, "delete")]_vars

C11_Witness ==
  /\ request.method \in {"get", "list"}
  /\ response.code \in {200, 404}
  /\ Len(ocene) > 0
  /\ Len(pritozbe) > 0

\* the lookups a create on a resource makes when none fails
LookupsNeeded(resource) == IF resource = "ocene" THEN 1 ELSE 2

\* the lookups of the last request were all made and all succeeded
LookupsSucceeded(resource, calls) ==
  /\ Len(calls) = LookupsNeeded(resource)
  /\ \A i \in 1 .. Len(calls) : calls[i].status_code = 200

\* the first stored row with id x, as a get shows it
FirstStored(resource, x) ==
  IF resource = "ocene"
  THEN NarocnikModel(SelectOcene(Where(ocene, x))[1])
  ELSE PritozbaModel(SelectPritozbe(Where(pritozbe, x))[1])

\* C12: a create on an id that a stored row already has, with its lookups
\* succeeding, answers 201 and adds exactly one row; a get of an id that stored
\* rows have answers 200 with the fields of the first of them.
C12_DuplicateIdAccepted ==
  [][\A r \in TableNames :
       /\ (/\ IsRequest(request', r, "post")
           /\ request'.id[1] \in IdsOf(RowsOf(r))
           /\ LookupsSucceeded(r, lookups'))
          => /\ response'.code = 201
             /\ Len(RowsOf(r)') = Len(RowsOf(r)) + 1
             /\ Len(Where(RowsOf(r)', request'.id[1])) >= 2
       /\ (/\ IsRequest(request', r, "get")
           /\ request'.id[1] \in IdsOf(RowsOf(r)))
          => /\ response'.code = 200
             /\ response'.rows = <<FirstStored(r, request'.id[1])>>]_vars

\* C13: a create that answers anything but 201 leaves its table as it was,
\* whichever of its optional arguments are present.
C13_NoRowWithout201 ==
  [][\A r \in TableNames :
       (IsRequest(request', r, "post") /\ response'.code # 201)
       => RowsOf(r)' = RowsOf(r)]_vars

====
